---- MODULE Spec2Model ----
(***************************************************************************)
(* Course scheduling optimizer (app/scheduling.py) and the Dash callbacks   *)
(* that feed it (app/app.py).                                              *)
(*                                                                         *)
(* SchedulingOptimizer.optimize_schedule is modelled as a sequential       *)
(* procedure whose position is pc.  The two integer programs it hands to   *)
(* the CBC backend are modelled by what the backend promises: a status,    *)
(* and with status OPTIMAL any one of the feasible assignments whose       *)
(* objective value is optimal.  Numbers that are floats in the code are    *)
(* exact fractions here: a numerator over a stated denominator.            *)
(*                                                                         *)
(* Spec and SpecBand call optimize_schedule directly, SpecPopularity calls *)
(* get_slots_popularity directly, and SpecApp runs the app: uploads stored *)
(* in the globals FACULTY, COURSES and SELECTION, and process_optimization *)
(* entering optimize_schedule with them.  The server runs the callbacks in *)
(* threads, so an upload may come between any two reads of the globals.    *)
(***************************************************************************)
EXTENDS Integers, Sequences, FiniteSets, TLC

\* ------------------------------------------------------------------ bounds
\* Largest number of rows of the selection table.
MaxCourses == 3

\* Largest number of rows of a table handed to get_slots_popularity on its own.
MaxVoters == 3

\* ----------------------------------------------------------------- helpers
Max2(a, b) == IF a >= b THEN a ELSE b

RECURSIVE SumOver(_, _)
\* Sum of f[e] over the finite set S.
SumOver(S, f) ==
    IF S = {} THEN 0
    ELSE LET e == CHOOSE e \in S : TRUE
         IN  f[e] + SumOver(S \ {e}, f)

SetMax(S) == CHOOSE m \in S : \A e \in S : e <= m
SetMin(S) == CHOOSE m \in S : \A e \in S : m <= e

\* Python's None and a present value, as a sequence of length 0 or 1.
None == << >>
Some(v) == << v >>

\* needle in hay, for strings given as sequences of characters.
IsSubstring(needle, hay) ==
    \E k \in 0..(Len(hay) - Len(needle)) :
        SubSeq(hay, k + 1, k + Len(needle)) = needle

\* ------------------------------------------------------------ slot catalog
\* A time label as the sequence of its characters.
T900 == <<"9", ":", "0", "0">>
T1030 == <<"1", "0", ":", "3", "0">>
T1200 == <<"1", "2", ":", "0", "0">>
T130 == <<"1", ":", "3", "0">>
T300 == <<"3", ":", "0", "0">>
T1015 == <<"1", "0", ":", "1", "5">>
T1145 == <<"1", "1", ":", "4", "5">>
T115 == <<"1", ":", "1", "5">>
T245 == <<"2", ":", "4", "5">>
T415 == <<"4", ":", "1", "5">>

TimeLabel(prefix, start, end) == prefix \o <<" ">> \o start \o <<"-">> \o end

SlotRow(ord, code, prefix, days, start, end) ==
    [ord |-> ord, code |-> code, time |-> TimeLabel(prefix, start, end),
     days |-> days, start |-> start, end |-> end]

slot_times ==
    << SlotRow(1, "s1", <<"M", "W", "F">>, "M/W/F", T900, T1015),
       SlotRow(2, "s2", <<"T", "T">>, "T/TH", T900, T1015),
       SlotRow(3, "s3", <<"M", "W", "F">>, "M/W/F", T1030, T1145),
       SlotRow(4, "s4", <<"T", "T">>, "T/TH", T1030, T1145),
       SlotRow(5, "s5", <<"M", "W", "F">>, "M/W/F", T1200, T115),
       SlotRow(6, "s6", <<"T", "T">>, "T/TH", T1200, T115),
       SlotRow(7, "s7", <<"M", "W", "F">>, "M/W/F", T130, T245),
       SlotRow(8, "s8", <<"T", "T">>, "T/TH", T130, T245),
       SlotRow(9, "s9", <<"M", "W", "F">>, "M/W/F", T300, T415),
       SlotRow(10, "s10", <<"T", "T">>, "T/TH", T300, T415) >>

SlotOrds == 1..Len(slot_times)

\* self.slots: the slot codes in catalog order.
slots == [k \in SlotOrds |-> slot_times[k].code]

mwf_set == {slot_times[k].code : k \in {k \in SlotOrds : slot_times[k].days = "M/W/F"}}
tt_set == {slot_times[k].code : k \in {k \in SlotOrds : slot_times[k].days = "T/TH"}}

\* Zero-based slot indices, as the code keeps them.
mwf_slots == {slot_times[k].ord - 1 : k \in {k \in SlotOrds : slot_times[k].days = "M/W/F"}}
tt_slots == {slot_times[k].ord - 1 : k \in {k \in SlotOrds : slot_times[k].days = "T/TH"}}

\* The exclusion index one too low: the MWF 3:00 pm slot.
fas_slot_off_by_one == {8}

\* The TT 3:00 pm slot.
fas_slot == {9}

StartGroup(start) == {slot_times[k].ord - 1 : k \in {k \in SlotOrds : slot_times[k].start = start}}
t900 == StartGroup(T900)
t1030 == StartGroup(T1030)
t1200 == StartGroup(T1200)
t130 == StartGroup(T130)
t300 == StartGroup(T300)

\* The list [self.t900, self.t1030, self.t1200, self.t130, self.t300].
time_groups == <<t900, t1030, t1200, t130, t300>>

\* ------------------------------------------------------------------ tables
\* A numpy matrix: its shape and its cells (rows and columns from 1).
Matrix(nr, nc, v) == [rows |-> nr, cols |-> nc, v |-> v]

\* ranks.T
Transpose(m) ==
    Matrix(m.cols, m.rows, [r \in 1..m.cols |-> [c \in 1..m.rows |-> m.v[c][r]]])

\* ranks[~np.all(ranks == 0, axis=1)]: the rows that are not all zero, in order.
NonZeroRows(m) ==
    LET keep == SelectSeq([r \in 1..m.rows |-> r],
                          LAMBDA r : \E c \in 1..m.cols : m.v[r][c] # 0)
    IN  Matrix(Len(keep), m.cols, [r \in 1..Len(keep) |-> m.v[keep[r]]])

\* A float score: a number, or float('inf').
Num(n) == [inf |-> FALSE, value |-> n]
Inf == [inf |-> TRUE, value |-> 0]

\* A float array whose entries share a denominator.
Arr(den, num) == [den |-> den, num |-> num]

\* The statuses pywraplp.Solver.Solve() can return.
SolverStatus == {"OPTIMAL", "FEASIBLE", "INFEASIBLE", "UNBOUNDED", "ABNORMAL", "NOT_SOLVED"}

\* What Solve() may answer for a bounded problem with the given feasible set:
\* the optimum when there is one, or no certificate at all (a backend fault).
StatusChoices(feasible) ==
    IF feasible = {} THEN {"INFEASIBLE", "ABNORMAL"} ELSE {"OPTIMAL", "ABNORMAL"}

\* ------------------------------------------------------------- rankaggr_lp
\* The keys of the BoolVars x[i, j], i # j.
PairVars(n) == {p \in (0..(n - 1)) \X (0..(n - 1)) : p[1] # p[2]}

\* One element per visit of the innermost loop that appends to obj_terms.
ObjTermVisits(ranks) ==
    {t \in (1..ranks.rows) \X (0..(ranks.cols - 1)) \X (0..(ranks.cols - 1)) :
        /\ t[2] # t[3]
        /\ ranks.v[t[1]][t[2] + 1] > 0
        /\ ranks.v[t[1]][t[3] + 1] > 0
        /\ ranks.v[t[1]][t[2] + 1] # ranks.v[t[1]][t[3] + 1]}

\* The variable that visit appends: x[j, i] when voter ranks i ahead of j, else x[i, j].
ObjTermVar(ranks, t) ==
    IF ranks.v[t[1]][t[2] + 1] < ranks.v[t[1]][t[3] + 1]
    THEN <<t[3], t[2]>>
    ELSE <<t[2], t[3]>>

\* How often each variable occurs in obj_terms.
ObjCoeff(ranks) ==
    [p \in PairVars(ranks.cols) |->
        Cardinality({t \in ObjTermVisits(ranks) : ObjTermVar(ranks, t) = p})]

\* solver.Sum(obj_terms) at the assignment x.
KemenyObjective(coeff, x) ==
    SumOver(DOMAIN coeff, [p \in DOMAIN coeff |-> coeff[p] * x[p]])

\* The transitivity constraints: x[i, j] + x[j, k] + x[k, i] <= 2.
TransitivityOk(n, x) ==
    \A i, j, k \in 0..(n - 1) :
        (j # i /\ j # k /\ i # k) => x[<<i, j>>] + x[<<j, k>>] + x[<<k, i>>] <= 2

\* The assignments of the BoolVars that satisfy every constraint added.
KemenyFeasible(n) == {x \in [PairVars(n) -> {0, 1}] : TransitivityOk(n, x)}

\* consensus_scores[j]: the number of i with x[i, j] set.
ConsensusScores(n, x) ==
    [j \in 1..n |-> Cardinality({i \in 0..(n - 1) : i # j - 1 /\ x[<<i, j - 1>>] = 1})]

\* The fallback: per candidate the mean of its non-zero ranks, or 2.5.
RECURSIVE ProdOver(_, _)
ProdOver(S, f) ==
    IF S = {} THEN 1
    ELSE LET e == CHOOSE e \in S : TRUE
         IN  f[e] * ProdOver(S \ {e}, f)

AvgRanks(ranks) ==
    LET valid(j) == {v \in 1..ranks.rows : ranks.v[v][j] > 0}
        cnt == [j \in 1..ranks.cols |-> Max2(Cardinality(valid(j)), 1)]
        den == 2 * ProdOver(1..ranks.cols, cnt)
        sum(j) == SumOver(valid(j), [v \in valid(j) |-> ranks.v[v][j]])
    IN  Arr(den, [j \in 1..ranks.cols |->
                    IF valid(j) # {} THEN sum(j) * (den \div cnt[j])
                    ELSE 5 * (den \div 2)])

\* The returns rankaggr_lp(ranks) can make.  solved tells whether Solve() ran.
rankaggr_lp(ranks) ==
    LET n == ranks.cols
        coeff == ObjCoeff(ranks)
        feasible == KemenyFeasible(n)
        best == SetMin({KemenyObjective(coeff, x) : x \in feasible})
    IN  IF ranks.rows = 0 \/ n = 0
        THEN {[score |-> Inf, consensus |-> Arr(1, [j \in 1..n |-> 0]),
               solved |-> FALSE, status |-> "NOT_SOLVED"]}
        ELSE IF ObjTermVisits(ranks) = {}
        THEN {[score |-> Num(0), consensus |-> Arr(1, [j \in 1..n |-> 1]),
               solved |-> FALSE, status |-> "NOT_SOLVED"]}
        ELSE {[score |-> Num(KemenyObjective(coeff, x)),
               consensus |-> Arr(1, ConsensusScores(n, x)),
               solved |-> TRUE, status |-> "OPTIMAL"] :
                 x \in {y \in feasible : KemenyObjective(coeff, y) = best}}
             \cup
             {[score |-> Inf, consensus |-> AvgRanks(ranks),
               solved |-> TRUE, status |-> st] :
                 st \in StatusChoices(feasible) \ {"OPTIMAL"}}

\* ---------------------------------------------------- get_slots_popularity
\* The neutral popularity written as 0 instead of 0.5.
ZeroPopularity(columns) == [c \in {columns[k] : k \in DOMAIN columns} |-> <<0, 1>>]

\* dict.fromkeys(data.columns, 0.5)
UniformPopularity(columns) == [c \in {columns[k] : k \in DOMAIN columns} |-> <<1, 2>>]

\* The part of get_slots_popularity after rankaggr_lp returned ret: the
\* popularity map, or the IndexError of consensus_ranks[i].
NormalizePopularity(data, ret) ==
    LET c == ret.consensus.num
        max_rank == SetMax({c[k] : k \in DOMAIN c})
        min_rank == SetMin({c[k] : k \in DOMAIN c})
    IN  IF max_rank = min_rank
        THEN [raised |-> None, slots_pop |-> UniformPopularity(data.columns),
              score |-> ret.score]
        ELSE IF \E i \in 1..Len(data.columns) : i > Len(c)
        THEN [raised |-> Some("IndexError"), slots_pop |-> << >>, score |-> ret.score]
        ELSE [raised |-> None,
              slots_pop |-> [s \in {data.columns[k] : k \in DOMAIN data.columns} |->
                  LET i == CHOOSE k \in DOMAIN data.columns : data.columns[k] = s
                  IN  <<max_rank - c[i], max_rank - min_rank>>],
              score |-> ret.score]

\* data.values of a table.
Values(data) == Matrix(Len(data.index), Len(data.columns), data.values)

\* The outcomes of get_slots_popularity(data).
get_slots_popularity(data) ==
    LET valid_ranks == NonZeroRows(Values(data))
    IN  IF valid_ranks.rows = 0
        THEN {[raised |-> None, slots_pop |-> UniformPopularity(data.columns),
               score |-> Num(0)]}
        ELSE {NormalizePopularity(data, ret) : ret \in rankaggr_lp(Transpose(valid_ranks))}

\* -------------------------------------------------------- get_satisfaction
\* get_satisfaction without the early return for an unranked slot.
get_satisfaction_unguarded(slot, preference, slot_popularity, noise) ==
    LET pn == slot_popularity[slot][1]
        pd == slot_popularity[slot][2]
        satisfaction == (5 - preference) * 10 * pd - 10 * pn + noise * pd
    IN  <<Max2(satisfaction, 0), 10 * pd>>

\* get_satisfaction(slot, preference, slot_popularity) when randint(1, 10)
\* draws noise: a fraction <<numerator, denominator>>.
get_satisfaction(slot, preference, slot_popularity, noise) ==
    IF preference = 0 THEN <<0, 1>>
    ELSE LET pn == slot_popularity[slot][1]
             pd == slot_popularity[slot][2]
             base_satisfaction == 5 - preference
             satisfaction == base_satisfaction * 10 * pd - 10 * pn + noise * pd
         IN  <<Max2(satisfaction, 0), 10 * pd>>

\* ------------------------------------------------------- optimize_schedule
VARIABLES
    pc,                  \* position in optimize_schedule
    selection_data,      \* the preference table: index, columns, values
    course_data,         \* the course table: index, Faculty
    faculty_data,        \* None, or the faculty table: index, columns, Voting
    voting_courses,      \* positions (from 0) of the courses of voting faculty
    rank_ret,            \* None, or what rankaggr_lp returned
    slot_popularity,     \* slot code -> popularity as <<numerator, denominator>>
    kemeny_score,        \* the score get_slots_popularity returned
    satisfaction_matrix, \* [slot][course] -> satisfaction as <<numerator, denominator>>
    solves,              \* the solvers whose Solve() has been called
    status,              \* what the assignment solver's Solve() returned
    x,                   \* the solution: course (from 0) -> the slots i with x[i, j] = 1
    ret,                 \* the pair optimize_schedule returned
    raised,              \* None, or the exception that ended the call
    FACULTY,             \* app.py's global: None, or the stored faculty table
    COURSES,             \* app.py's global: None, or the stored course table
    SELECTION,           \* app.py's global: None, or the stored selection table
    prep_sel,            \* process_optimization's local: None while unbound
    stack,               \* process_optimization's operands: the values it has read
                         \* for the expression it is evaluating
    callback_ret         \* what the Dash callback that ended in the last step
                         \* returned or raised; None when no callback ended in it

\* The state of app.py around the optimizer.
app_vars == <<FACULTY, COURSES, SELECTION, prep_sel, stack>>

\* No callback ends in this step.
NoReturn == callback_ret' = None

vars == <<pc, selection_data, course_data, faculty_data, voting_courses, rank_ret,
          slot_popularity, kemeny_score, satisfaction_matrix, solves, status, x,
          ret, raised, FACULTY, COURSES, SELECTION, prep_sel, stack, callback_ret>>

num_courses == Len(selection_data.index)
num_slots == Len(selection_data.columns)
num_stimes == 5
course_labels == selection_data.index

\* The first position (from 0) of e in the list s: s.index(e).
ListIndex(s, e) == (CHOOSE k \in DOMAIN s : s[k] = e /\ \A m \in 1..(k - 1) : s[m] # e) - 1

\* table.loc[label, column] for a label the index holds once.
Loc(table, label, column) == table[column][ListIndex(table.index, label) + 1]

\* faculty_data[faculty_data['Voting'] > 0].index.tolist()
VotingFacultyNames(faculty) ==
    {faculty.index[k] : k \in {k \in DOMAIN faculty.index : faculty.Voting[k] > 0}}

\* Lines 145-153: the positions of the courses whose faculty votes, in course order.
VotingCoursesOf(selection, courses, faculty) ==
    IF faculty # None /\ "Voting" \in faculty[1].columns
    THEN LET labels == selection.index
             names == VotingFacultyNames(faculty[1])
             hit(k) == /\ \E m \in DOMAIN courses.index : courses.index[m] = labels[k]
                       /\ Loc(courses, labels[k], "Faculty") \in names
             keep == SelectSeq([k \in DOMAIN labels |-> k], hit)
         IN  [n \in DOMAIN keep |-> ListIndex(labels, labels[keep[n]])]
    ELSE << >>

\* selection_data[slot].tolist()
Column(data, slot) ==
    LET c == CHOOSE k \in DOMAIN data.columns : data.columns[k] = slot
    IN  [i \in 1..Len(data.index) |-> data.values[i][c]]

\* The values randint(1, 10) can return.
NoiseValues == 1..10

\* The cells <<s, i>> (slot, course) for which get_satisfaction reaches randint:
\* those whose rank is not 0.
RankedCells(data) ==
    {c \in (1..Len(data.columns)) \X (1..Len(data.index)) :
        Column(data, slots[c[1]])[c[2]] # 0}

\* The draws of one pass over the table: any value for every such cell,
\* whatever the other cells drew.
NoiseDraws(data) == [RankedCells(data) -> NoiseValues]

\* Lines 159-167: the satisfaction matrix when the cells draw noise.  A cell
\* of rank 0 draws nothing.
SatisfactionMatrix(data, popularity, noise) ==
    [s \in 1..Len(data.columns) |->
        LET slot == slots[s]
            old_row == Column(data, slot)
        IN  [i \in 1..Len(data.index) |->
                get_satisfaction(slot, old_row[i], popularity,
                                 IF <<s, i>> \in DOMAIN noise THEN noise[<<s, i>>] ELSE 0)]]

\* The day-pattern floor rounded down instead of up.
set_min_floor(n) == (n \div 2) - 1

\* The day-pattern floor without its slack of one course.
set_min_no_slack(n) == (n + 1) \div 2

\* math.ceil(num_courses / 2) - 1
set_min(n) == ((n + 1) \div 2) - 1

\* The start-time floor taken per slot instead of per start time.
stime_min_per_slot(n) == n \div (2 * num_stimes)

\* int(num_courses / num_stimes)
stime_min(n) == n \div num_stimes

\* The start-time ceiling one course too high.
stime_max_wide(n) == stime_min(n) + 3

\* stime_min + 2
stime_max(n) == stime_min(n) + 2

\* "At most one slot" in place of "exactly one slot".
AtMostOneSlotColumns(nslots) == {col \in SUBSET (0..(nslots - 1)) : Cardinality(col) <= 1}

\* The values the BoolVars x[0, j] .. x[num_slots - 1, j] of one course can take
\* under "each course assigned to exactly one slot", as the set of slots set to 1.
OneSlotColumns(nslots) == {col \in SUBSET (0..(nslots - 1)) : Cardinality(col) = 1}

\* range(n) as a list.
Range(n) == [k \in 1..n |-> k - 1]

RECURSIVE SumSeq(_, _)
\* f[1] + ... + f[k]
SumSeq(f, k) == IF k = 0 THEN 0 ELSE f[k] + SumSeq(f, k - 1)

\* solver.Sum([x[i, j] for i in group for j in courses]) at the solution sol.
GroupSum(sol, group, courses) ==
    SumSeq([k \in DOMAIN courses |-> Cardinality(sol[courses[k]] \cap group)], Len(courses))

\* Balance MWF vs TT.
DayBalanceOk(sol, n) ==
    /\ GroupSum(sol, mwf_slots, Range(n)) >= set_min(n)
    /\ GroupSum(sol, tt_slots, Range(n)) >= set_min(n)

\* Balance start times.
StartTimeOk(sol, n) ==
    \A g \in DOMAIN time_groups :
        LET total == GroupSum(sol, time_groups[g], Range(n))
        IN  total >= stime_min(n) /\ total <= stime_max(n)

\* FAS meeting constraint (if voting courses identified).
FasOk(sol, voting) ==
    voting # << >> => GroupSum(sol, fas_slot, voting) = 0

\* The solutions that satisfy every constraint added to the solver.
Feasible(n, nslots, voting) ==
    {sol \in [0..(n - 1) -> OneSlotColumns(nslots)] :
        DayBalanceOk(sol, n) /\ StartTimeOk(sol, n) /\ FasOk(sol, voting)}

\* A denominator all cells of the matrix share.
CommonDen(sat) ==
    LET dens == UNION {{sat[s][i][2] : i \in DOMAIN sat[s]} : s \in DOMAIN sat}
    IN  ProdOver(dens, [d \in dens |-> d])

\* The matrix in units of 1 / CommonDen(sat).
Scaled(sat) ==
    LET den == CommonDen(sat)
    IN  [s \in DOMAIN sat |-> [i \in DOMAIN sat[s] |-> sat[s][i][1] * (den \div sat[s][i][2])]]

\* solver.Sum([satisfaction_matrix[i][j] * x[i, j] ...]) at sol, for a scaled matrix.
Objective(scaled, sol) ==
    SumSeq([k \in 1..Cardinality(DOMAIN sol) |->
               SumOver(sol[k - 1], [i \in sol[k - 1] |-> scaled[i + 1][k]])],
           Cardinality(DOMAIN sol))

\* The solutions the solver may report with status OPTIMAL.
Optimal(sat, feasible) ==
    LET scaled == Scaled(sat)
        valued == {<<Objective(scaled, sol), sol>> : sol \in feasible}
        best == SetMax({v[1] : v \in valued})
    IN  {v[2] : v \in {w \in valued : w[1] = best}}

\* Lines 212-225: the entries in the order the two loops append them.
ExtractResults(data, sat, sol) ==
    LET n == Len(data.index)
        cells == [k \in 1..(Len(data.columns) * n) |-> <<(k - 1) \div n, (k - 1) % n>>]
        set == SelectSeq(cells, LAMBDA c : c[1] \in sol[c[2]])
    IN  [k \in DOMAIN set |->
            [Course |-> data.index[set[k][2] + 1],
             Slot |-> slot_times[set[k][1] + 1].code,
             Time |-> slot_times[set[k][1] + 1].time,
             Satisfaction |-> sat[set[k][1] + 1][set[k][2] + 1]]]

\* output[j, i] = 1 for every variable set.
OutputMatrix(data, sol) ==
    Matrix(Len(data.index), Len(data.columns),
           [j \in 1..Len(data.index) |->
               [i \in 1..Len(data.columns) |-> IF (i - 1) \in sol[j - 1] THEN 1 ELSE 0]])

calculate_stats(res, out) ==
    LET mwf_count == Cardinality({k \in DOMAIN res : res[k].Slot \in mwf_set})
        tt_count == Cardinality({k \in DOMAIN res : res[k].Slot \in tt_set})
        time_counts ==
            [t \in {T900, T1030, T1200, T130, T300} |->
                Cardinality({k \in DOMAIN res : IsSubstring(t, res[k].Time)})]
        counts == {time_counts[t] : t \in DOMAIN time_counts}
    IN  [mwf_count |-> mwf_count,
         tt_count |-> tt_count,
         time_counts |-> time_counts,
         slot_counts |-> [i \in 1..out.cols |->
                             SumOver(1..out.rows, [j \in 1..out.rows |-> out.v[j][i]])],
         balance_diff |-> IF mwf_count >= tt_count THEN mwf_count - tt_count
                          ELSE tt_count - mwf_count,
         time_diff |-> SetMax(counts) - SetMin(counts)]

\* ------------------------------------------------------------------ inputs
\* A preference row from its non-zero ranks.
RowOf(f) == [k \in SlotOrds |-> IF k \in DOMAIN f THEN f[k] ELSE 0]

RowNone == RowOf(<< >>)
RowMorning == RowOf(<<1, 2>>)
RowMorningSwapped == RowOf(<<2, 1>>)
RowLate == RowOf((7 :> 4) @@ (8 :> 3) @@ (9 :> 2) @@ (10 :> 1))
RowSame == RowOf((3 :> 2) @@ (4 :> 2))
RowMorningLater == RowOf(<<2, 3>>)

RowLast == RowOf(10 :> 1)
RowFirst == RowOf(<<1>>)
RowFirstLater == RowOf(<<2>>)

\* The preference profiles: the rows of a table repeat the profile's rows in
\* turn.  Every ranked cell draws its noise from all of NoiseValues, so the
\* tables that reach the assignment solver rank few cells.
Profiles ==
    { <<RowNone>>,
      <<RowLast, RowNone, RowNone, RowNone, RowNone, RowNone>> }

\* Two courses that rank the same slot differently.
PairTables == {[index |-> <<"c1", "c2">>, columns |-> slots, values |-> <<RowFirst, RowFirstLater>>]}

CourseNames == <<"c1", "c2", "c3", "c4", "c5", "c6">>

SelectionTable(profile, n) ==
    [index |-> SubSeq(CourseNames, 1, n),
     columns |-> slots,
     values |-> [j \in 1..n |-> profile[((j - 1) % Len(profile)) + 1]]]

SelectionTables == {SelectionTable(p, n) : p \in Profiles, n \in 0..MaxCourses} \cup PairTables

\* The course table, indexed by course.
CourseTable == [index |-> <<"c1", "c2">>, columns |-> {"Faculty"}, Faculty |-> <<"f1", "f2">>]

\* The faculty tables, indexed by name; None when no faculty data is given.
FacultyTable(columns, voting) ==
    [index |-> <<"f1", "f2">>, columns |-> columns, Voting |-> voting]

FacultyTables ==
    { None,
      Some(FacultyTable({"Adjustment"}, <<0, 0>>)),
      Some(FacultyTable({"Adjustment", "Voting"}, <<1, 0>>)),
      Some(FacultyTable({"Adjustment", "Voting"}, <<1, 1>>)) }

\* A row that gives every slot the rank r.
RowUniform(r) == [k \in SlotOrds |-> r]

\* The profiles of the tables get_slots_popularity is called with on its own.
PopularityProfiles ==
    Profiles \cup {<<RowUniform(r)>> : r \in 1..4}
             \cup { <<RowMorning>>, <<RowLate>>, <<RowUniform(1), RowUniform(2)>>,
                    <<RowMorning, RowMorningSwapped>>,
                    <<RowMorning, RowMorningLater>>,
                    <<RowLate, RowNone, RowSame>>,
                    <<RowFirst, RowFirstLater>> }

PopularityTables == {SelectionTable(p, n) : p \in PopularityProfiles, n \in 1..MaxVoters}

\* ----------------------------------------------------------------- actions
\* The state when optimize_schedule is entered with tables drawn from the given sets.
Entered(tables, faculties) ==
    /\ pc = "start"
    /\ selection_data \in tables
    /\ course_data = CourseTable
    /\ faculty_data \in faculties
    /\ voting_courses = << >>
    /\ rank_ret = None
    /\ slot_popularity = << >>
    /\ kemeny_score = None
    /\ satisfaction_matrix = << >>
    /\ solves = {}
    /\ status = "NOT_SOLVED"
    /\ x = << >>
    /\ ret = None
    /\ raised = None
    /\ FACULTY = None
    /\ COURSES = None
    /\ SELECTION = None
    /\ prep_sel = None
    /\ stack = << >>
    /\ callback_ret = None

Init == Entered(SelectionTables, FacultyTables)

\* A table with num_stimes courses, the smallest count at which the floor of the
\* start-time band is not zero; the first course asks for s10 alone.
FiveTables == {SelectionTable(<<RowLast, RowNone, RowNone, RowNone, RowNone>>, num_stimes)}

BandFaculty == {Some(FacultyTable({"Adjustment", "Voting"}, <<1, 1>>))}

InitBand == Init \/ Entered(FiveTables, BandFaculty)

\* get_slots_popularity called on its own with one of the given tables.
PopularityCalled(tables) ==
    /\ pc = "popularity"
    /\ selection_data \in tables
    /\ course_data = CourseTable
    /\ faculty_data = None
    /\ voting_courses = << >>
    /\ rank_ret = None
    /\ slot_popularity = << >>
    /\ kemeny_score = None
    /\ satisfaction_matrix = << >>
    /\ solves = {}
    /\ status = "NOT_SOLVED"
    /\ x = << >>
    /\ ret = None
    /\ raised = None
    /\ FACULTY = None
    /\ COURSES = None
    /\ SELECTION = None
    /\ prep_sel = None
    /\ stack = << >>
    /\ callback_ret = None

InitPopularity == PopularityCalled(PopularityTables)

\* Lines 144-153.
VotingCourses ==
    /\ pc = "start"
    /\ voting_courses' = VotingCoursesOf(selection_data, course_data, faculty_data)
    /\ pc' = "popularity"
    /\ UNCHANGED app_vars
    /\ NoReturn
    /\ UNCHANGED <<selection_data, course_data, faculty_data, rank_ret, slot_popularity,
                   kemeny_score, satisfaction_matrix, solves, status, x, ret, raised>>

\* get_slots_popularity, lines 100-107: no row has a non-zero rank.
PopularityNoVoters ==
    /\ pc = "popularity"
    /\ NonZeroRows(Values(selection_data)).rows = 0
    /\ \E r \in get_slots_popularity(selection_data) :
           /\ slot_popularity' = r.slots_pop
           /\ kemeny_score' = Some(r.score)
    /\ pc' = "satisfaction"
    /\ UNCHANGED app_vars
    /\ NoReturn
    /\ UNCHANGED <<selection_data, course_data, faculty_data, voting_courses, rank_ret,
                   satisfaction_matrix, solves, status, x, ret, raised>>

\* get_slots_popularity, line 109: the call of rankaggr_lp.
RankAggr ==
    /\ pc = "popularity"
    /\ NonZeroRows(Values(selection_data)).rows # 0
    /\ \E r \in rankaggr_lp(Transpose(NonZeroRows(Values(selection_data)))) :
           /\ rank_ret' = Some(r)
           /\ solves' = IF r.solved THEN solves \cup {"KemenyYoung"} ELSE solves
    /\ pc' = "normalize"
    /\ UNCHANGED app_vars
    /\ NoReturn
    /\ UNCHANGED <<selection_data, course_data, faculty_data, voting_courses,
                   slot_popularity, kemeny_score, satisfaction_matrix, status, x,
                   ret, raised>>

\* get_slots_popularity, lines 111-122, when it returns.
Normalize ==
    /\ pc = "normalize"
    /\ LET r == NormalizePopularity(selection_data, rank_ret[1])
       IN  /\ r.raised = None
           /\ slot_popularity' = r.slots_pop
           /\ kemeny_score' = Some(r.score)
    /\ pc' = "satisfaction"
    /\ UNCHANGED app_vars
    /\ NoReturn
    /\ UNCHANGED <<selection_data, course_data, faculty_data, voting_courses, rank_ret,
                   satisfaction_matrix, solves, status, x, ret, raised>>

\* get_slots_popularity, line 119, when consensus_ranks[i] is out of range.
NormalizeRaises ==
    /\ pc = "normalize"
    /\ LET r == NormalizePopularity(selection_data, rank_ret[1])
       IN  /\ r.raised # None
           /\ raised' = r.raised
    /\ pc' = "raised"
    /\ UNCHANGED app_vars
    /\ NoReturn
    /\ UNCHANGED <<selection_data, course_data, faculty_data, voting_courses, rank_ret,
                   slot_popularity, kemeny_score, satisfaction_matrix, solves, status,
                   x, ret>>

\* Lines 158-167.
BuildSatisfaction ==
    /\ pc = "satisfaction"
    /\ \E noise \in NoiseDraws(selection_data) :
           satisfaction_matrix' = SatisfactionMatrix(selection_data, slot_popularity, noise)
    /\ pc' = "solve"
    /\ UNCHANGED app_vars
    /\ NoReturn
    /\ UNCHANGED <<selection_data, course_data, faculty_data, voting_courses, rank_ret,
                   slot_popularity, kemeny_score, solves, status, x, ret, raised>>

\* Lines 169-206: the model is built and solved.
Solve ==
    /\ pc = "solve"
    /\ LET feasible == Feasible(num_courses, num_slots, voting_courses)
       IN  \E st \in StatusChoices(feasible) :
               /\ status' = st
               /\ IF st = "OPTIMAL"
                  THEN x' \in Optimal(satisfaction_matrix, feasible)
                  ELSE x' = << >>
    /\ solves' = solves \cup {"SolveMIP"}
    /\ pc' = "solved"
    /\ UNCHANGED app_vars
    /\ NoReturn
    /\ UNCHANGED <<selection_data, course_data, faculty_data, voting_courses, rank_ret,
                   slot_popularity, kemeny_score, satisfaction_matrix, ret, raised>>

\* The failure branch returning no reason with the missing record.
ReturnFailedSilently ==
    /\ pc = "solved"
    /\ status # "OPTIMAL"
    /\ ret' = Some([result |-> None, error |-> None])
    /\ pc' = "done"
    /\ UNCHANGED app_vars
    /\ NoReturn
    /\ UNCHANGED <<selection_data, course_data, faculty_data, voting_courses, rank_ret,
                   slot_popularity, kemeny_score, satisfaction_matrix, solves, status,
                   x, raised>>

\* Lines 208-209.
ReturnFailed ==
    /\ pc = "solved"
    /\ status # "OPTIMAL"
    /\ ret' = Some([result |-> None, error |-> Some("Optimization failed")])
    /\ pc' = "done"
    /\ UNCHANGED app_vars
    /\ NoReturn
    /\ UNCHANGED <<selection_data, course_data, faculty_data, voting_courses, rank_ret,
                   slot_popularity, kemeny_score, satisfaction_matrix, solves, status,
                   x, raised>>

\* Lines 211-238: the results are extracted, the statistics computed, and the
\* record returned (solve_time, the solver's wall clock, is left out).
ReturnResults ==
    /\ pc = "solved"
    /\ status = "OPTIMAL"
    /\ LET res == ExtractResults(selection_data, satisfaction_matrix, x)
           out == OutputMatrix(selection_data, x)
       IN  ret' = Some([result |-> Some([results |-> res,
                                         stats |-> calculate_stats(res, out),
                                         output_matrix |-> out,
                                         satisfaction_total |->
                                             <<Objective(Scaled(satisfaction_matrix), x),
                                               CommonDen(satisfaction_matrix)>>,
                                         slot_popularity |-> slot_popularity,
                                         kemeny_score |-> kemeny_score[1]]),
                        error |-> None])
    /\ pc' = "done"
    /\ UNCHANGED app_vars
    /\ NoReturn
    /\ UNCHANGED <<selection_data, course_data, faculty_data, voting_courses, rank_ret,
                   slot_popularity, kemeny_score, satisfaction_matrix, solves, status,
                   x, raised>>

Next ==
    \/ VotingCourses
    \/ PopularityNoVoters
    \/ RankAggr
    \/ Normalize
    \/ NormalizeRaises
    \/ BuildSatisfaction
    \/ Solve
    \/ ReturnFailed
    \/ ReturnResults

Spec == Init /\ [][Next]_vars

SpecBand == InitBand /\ [][Next]_vars

\* get_slots_popularity from its call to its return or its exception.
NextPopularity ==
    \/ PopularityNoVoters
    \/ RankAggr
    \/ Normalize
    \/ NormalizeRaises

SpecPopularity == InitPopularity /\ [][NextPopularity]_vars

\* ------------------------------------------------------------------ app.py
\* The variables of one optimize_schedule call.
opt_vars == <<pc, selection_data, course_data, faculty_data, voting_courses, rank_ret,
              slot_popularity, kemeny_score, satisfaction_matrix, solves, status, x,
              ret, raised>>

\* The extensions parse_contents looks for, and file names, as character sequences.
ExtCsv == <<"c", "s", "v">>
ExtXls == <<"x", "l", "s">>
NameCsv == <<"a", ".">> \o ExtCsv
NameXlsx == <<"a", ".">> \o ExtXls \o <<"x">>
NameTxt == <<"a", ".", "t", "x", "t">>

\* The decoded bytes of an upload: their format ("csv", "excel" or "other"), the
\* rows a reader of that format finds, each with as many fields as the callback
\* names headers, and the dtype pandas infers for each column.
Content(format, rows, dtypes) == [format |-> format, rows |-> rows, dtypes |-> dtypes]

\* The arguments of an upload callback.
Upload(contents, filename) == Some([contents |-> contents, filename |-> filename])

\* The labels of the RangeIndex of a frame of n rows.  Number labels are
\* written as their numerals, and the dtype of a column tells numbers from
\* text; no input holds a text that is the numeral of one of its number
\* labels, so labels are equal here exactly when pandas finds them equal.
RowNumbers(n) == SubSeq(<<"0", "1", "2", "3">>, 1, n)

\* The frame a reader builds with names=headers: a RangeIndex, the named
\* columns ('header' keeps them in order), and each column's values.
DataFrame(headers, rows, dtypes) ==
    [c \in {"index", "columns", "header", "dtypes"} \cup {headers[h] : h \in DOMAIN headers} |->
        IF c = "index" THEN RowNumbers(Len(rows))
        ELSE IF c = "columns" THEN {headers[h] : h \in DOMAIN headers}
        ELSE IF c = "header" THEN headers
        ELSE IF c = "dtypes" THEN dtypes
        ELSE [k \in DOMAIN rows |-> rows[k][ListIndex(headers, c) + 1]]]

\* pd.read_csv / pd.read_excel: the frame, or None when the reader raises (bytes
\* of another format, or a file without rows).
ReadFrame(contents, reader, headers) ==
    IF contents.format = reader /\ contents.rows # << >>
    THEN Some(DataFrame(headers, contents.rows, contents.dtypes))
    ELSE None

\* parse_contents(contents, filename, headers): the pair (df, error).  A
\* message is the sequence of the parts its f-string joins.
parse_contents(contents, filename, headers) ==
    LET reader == IF IsSubstring(ExtCsv, filename) THEN Some("csv")
                  ELSE IF IsSubstring(ExtXls, filename) THEN Some("excel")
                  ELSE None
    IN  IF reader = None
        THEN [df |-> None, error |-> Some(<<"Unsupported file format">>)]
        ELSE LET df == ReadFrame(contents, reader[1], headers)
             IN  IF df = None
                 THEN [df |-> None,
                       error |-> Some(<<"Error processing file: ", "reader error">>)]
                 ELSE [df |-> df, error |-> None]

FacultyHeaders == <<"Name", "Adjustment", "Voting">>
CourseHeaders == <<"Course", "Faculty">>
SelectionHeaders == <<"Course">> \o slots

\* df.to_dict('records')
ToRecords(df) ==
    [k \in DOMAIN df.index |-> [c \in df.columns |-> df[c][k]]]

\* The table an upload callback shows for the frame it stored.
TableDiv(df) == [component |-> "DataTable", data |-> ToRecords(df), columns |-> df.header]

\* html.Div(f'Error: {error}', style={'color': 'red'})
ErrorDiv(error) == [component |-> "Div", text |-> <<"Error: ">> \o error, color |-> "red"]

\* What a callback answered: the arguments it was called with, and the value
\* it returned (None, or Some of a component) or the exception it raised.
CallbackRet(callback, args, children, exception) ==
    Some([callback |-> callback, args |-> args, children |-> children,
          raised |-> exception])

\* The uploads the session draws from, per upload component; None is the call
\* Dash makes before anything is uploaded.
FacultyRows == << <<"f1", 0, 1>>, <<"f2", 0, 0>> >>
FacultyDtypes == <<"object", "int64", "int64">>

FacultyUploads ==
    << None,
       Upload(Content("excel", FacultyRows, FacultyDtypes), NameXlsx),
       Upload(Content("other", << >>, << >>), NameTxt) >>

CourseRows == << <<"c1", "f1">>, <<"c2", "f2">> >>

CourseUploads ==
    << None,
       Upload(Content("csv", CourseRows, <<"object", "object">>), NameCsv),
       Upload(Content("excel", CourseRows, <<"object", "object">>), NameCsv) >>

\* A row of the selection file: the course, then its ten ranks.
SelectionRow(course, ranks) == <<course>> \o ranks

SelectionDtypes(first) == <<first>> \o [k \in SlotOrds |-> "int64"]

SelectionUploads ==
    << None,
       Upload(Content("csv",
                      << SelectionRow("c1", RowLast) >>,
                      SelectionDtypes("object")), NameCsv),
       Upload(Content("csv",
                      << SelectionRow("c1", RowFirst), SelectionRow("c2", RowFirstLater) >>,
                      SelectionDtypes("object")), NameCsv),
       Upload(Content("csv",
                      << SelectionRow("c1", RowNone) >>,
                      SelectionDtypes("object")), NameCsv),
       Upload(Content("csv",
                      << SelectionRow("101", RowNone) >>,
                      SelectionDtypes("int64")), NameCsv),
       Upload(Content("other", << >>, << >>), NameTxt) >>

\* No optimize_schedule call is running: its variables hold nothing.
NoCall ==
    /\ pc = "idle"
    /\ selection_data = None
    /\ course_data = None
    /\ faculty_data = None
    /\ voting_courses = << >>
    /\ rank_ret = None
    /\ slot_popularity = << >>
    /\ kemeny_score = None
    /\ satisfaction_matrix = << >>
    /\ solves = {}
    /\ status = "NOT_SOLVED"
    /\ x = << >>
    /\ ret = None
    /\ raised = None

\* The call of optimize_schedule ends: its variables are dropped.
EndCall ==
    /\ pc' = "idle"
    /\ selection_data' = None
    /\ course_data' = None
    /\ faculty_data' = None
    /\ voting_courses' = << >>
    /\ rank_ret' = None
    /\ slot_popularity' = << >>
    /\ kemeny_score' = None
    /\ satisfaction_matrix' = << >>
    /\ solves' = {}
    /\ status' = "NOT_SOLVED"
    /\ x' = << >>
    /\ ret' = None
    /\ raised' = None

\* The app after import: lines 21-23.
InitApp ==
    /\ NoCall
    /\ FACULTY = None
    /\ COURSES = None
    /\ SELECTION = None
    /\ prep_sel = None
    /\ stack = << >>
    /\ callback_ret = None

\* The upload callbacks touch the globals once, in one assignment, and
\* everything else they do is local: each is one step, and the server's threads
\* let it happen at any point of a running process_optimization.

\* faculty_data(contents, filename), lines 480-500.
FacultyDataCallback ==
    /\ \E k \in DOMAIN FacultyUploads :
           LET args == FacultyUploads[k]
               parsed == parse_contents(args[1].contents, args[1].filename, FacultyHeaders)
           IN  IF args = None
               THEN /\ FACULTY' = FACULTY
                    /\ callback_ret' = CallbackRet("faculty_data", args, None, None)
               ELSE IF parsed.df # None
               THEN /\ FACULTY' = parsed.df
                    /\ callback_ret' = CallbackRet("faculty_data", args,
                                                   Some(TableDiv(parsed.df[1])), None)
               ELSE /\ FACULTY' = FACULTY
                    /\ callback_ret' = CallbackRet("faculty_data", args,
                                                   Some(ErrorDiv(parsed.error[1])), None)
    /\ UNCHANGED <<COURSES, SELECTION, prep_sel, stack>>
    /\ UNCHANGED opt_vars

\* course_data(contents, filename), lines 507-527.
CourseDataCallback ==
    /\ \E k \in DOMAIN CourseUploads :
           LET args == CourseUploads[k]
               parsed == parse_contents(args[1].contents, args[1].filename, CourseHeaders)
           IN  IF args = None
               THEN /\ COURSES' = COURSES
                    /\ callback_ret' = CallbackRet("course_data", args, None, None)
               ELSE IF parsed.df # None
               THEN /\ COURSES' = parsed.df
                    /\ callback_ret' = CallbackRet("course_data", args,
                                                   Some(TableDiv(parsed.df[1])), None)
               ELSE /\ COURSES' = COURSES
                    /\ callback_ret' = CallbackRet("course_data", args,
                                                   Some(ErrorDiv(parsed.error[1])), None)
    /\ UNCHANGED <<FACULTY, SELECTION, prep_sel, stack>>
    /\ UNCHANGED opt_vars

\* selection_data(contents, filename), lines 534-557: df is stored before it is
\* looked at, and df.to_dict raises AttributeError when df is None; the return
\* of line 556 follows a return.
SelectionDataCallback ==
    /\ \E k \in DOMAIN SelectionUploads :
           LET args == SelectionUploads[k]
               parsed == parse_contents(args[1].contents, args[1].filename, SelectionHeaders)
           IN  IF args = None
               THEN /\ SELECTION' = SELECTION
                    /\ callback_ret' = CallbackRet("selection_data", args, None, None)
               ELSE /\ SELECTION' = parsed.df
                    /\ callback_ret' =
                           IF parsed.df # None
                           THEN CallbackRet("selection_data", args,
                                            Some(TableDiv(parsed.df[1])), None)
                           ELSE CallbackRet("selection_data", args, None,
                                            Some("AttributeError"))
    /\ UNCHANGED <<FACULTY, COURSES, prep_sel, stack>>
    /\ UNCHANGED opt_vars

\* df.set_index(key): the column key becomes the index.
SetIndex(df, key) ==
    LET rest == SelectSeq(df.header, LAMBDA h : h # key)
    IN  [index |-> df[key],
         columns |-> rest,
         values |-> [k \in DOMAIN df.index |-> [c \in DOMAIN rest |-> df[rest[c]][k]]]]

\* The three outputs of process_optimization when only a message is shown.
MessageOnly(parts) == <<Some([component |-> "Div", text |-> parts]), None, None>>

\* The lines of the log that come from the statistics (total satisfaction and
\* solve time, printed from floats, are left out).
LogContent(results) ==
    [mwf_count |-> results.stats.mwf_count,
     tt_count |-> results.stats.tt_count,
     balance_diff |-> results.stats.balance_diff,
     time_diff |-> results.stats.time_diff,
     day_pattern_balance |-> IF results.stats.balance_diff <= 2 THEN "ok" ELSE "fail",
     start_time_balance |-> IF results.stats.time_diff <= 2 THEN "ok" ELSE "fail"]

\* create_optimization_charts(results): the data each chart plots.
Charts(results) ==
    [slot_chart |-> results.stats.slot_counts,
     balance_chart |-> <<results.stats.mwf_count, results.stats.tt_count>>,
     time_chart |-> results.stats.time_counts,
     satisfaction_chart |-> [k \in DOMAIN results.results |-> results.results[k].Satisfaction]]

\* process_optimization reads the globals with no lock: every read is a step
\* of its own, and an upload callback may rebind a global between two of them.
\* The callbacks never write to a running call's locals, and calls of
\* process_optimization write no global, so one running call stands for each.

\* process_optimization returns children: its frame is dropped.
ProcessReturns(children) ==
    /\ callback_ret' = CallbackRet("process_optimization", Some("click"), children, None)
    /\ EndCall
    /\ prep_sel' = None
    /\ stack' = << >>
    /\ UNCHANGED <<FACULTY, COURSES, SELECTION>>

\* An exception leaves process_optimization: Dash gets no outputs.
ProcessRaises(exception) ==
    /\ callback_ret' = CallbackRet("process_optimization", Some("click"), None, Some(exception))
    /\ EndCall
    /\ prep_sel' = None
    /\ stack' = << >>
    /\ UNCHANGED <<FACULTY, COURSES, SELECTION>>

\* process_optimization goes on at the position to, with its locals as given.
ProcessGoes(to, local, operands) ==
    /\ pc' = to
    /\ prep_sel' = local
    /\ stack' = operands
    /\ NoReturn
    /\ UNCHANGED <<selection_data, course_data, faculty_data, voting_courses, rank_ret,
                   slot_popularity, kemeny_score, satisfaction_matrix, solves, status,
                   x, ret, raised>>
    /\ UNCHANGED <<FACULTY, COURSES, SELECTION>>

NotLoadedMessage ==
    MessageOnly(<<"Please load all required data files before running optimization.">>)

\* process_optimization(None), lines 244-245: the call Dash makes on page load.
ProcessNoClick ==
    /\ pc = "idle"
    /\ callback_ret' = CallbackRet("process_optimization", None, <<None, None, None>>, None)
    /\ UNCHANGED <<FACULTY, COURSES, SELECTION, prep_sel, stack>>
    /\ UNCHANGED opt_vars

\* process_optimization(n_clicks), line 248: COURSES is not None.
ProcessTestCourses ==
    /\ pc = "idle"
    /\ IF COURSES = None
       THEN ProcessReturns(NotLoadedMessage)
       ELSE ProcessGoes("line248_faculty", None, << >>)

\* Line 248: FACULTY is not None.
ProcessTestFaculty ==
    /\ pc = "line248_faculty"
    /\ IF FACULTY = None
       THEN ProcessReturns(NotLoadedMessage)
       ELSE ProcessGoes("line248_selection", None, << >>)

\* Line 248: SELECTION is not None.
ProcessTestSelection ==
    /\ pc = "line248_selection"
    /\ IF SELECTION = None
       THEN ProcessReturns(NotLoadedMessage)
       ELSE ProcessGoes("line250", None, << >>)

\* Line 250: SELECTION.iloc[:, 0].dtype == 'object', outside the try.  When the
\* dtype is another, prep_sel stays unbound and its use at line 255 raises
\* UnboundLocalError inside the try, which line 294 catches.
ProcessTestDtype ==
    /\ pc = "line250"
    /\ IF SELECTION = None
       THEN ProcessRaises("AttributeError")
       ELSE IF SELECTION[1].dtypes[1] # "object"
       THEN ProcessReturns(MessageOnly(<<"Unexpected error: ", "UnboundLocalError">>))
       ELSE ProcessGoes("line251", None, << >>)

\* Line 251: SELECTION.set_index, the table whose index will be set.
ProcessLoadSelection ==
    /\ pc = "line251"
    /\ IF SELECTION = None
       THEN ProcessRaises("AttributeError")
       ELSE ProcessGoes("line251_columns", None, <<SELECTION[1]>>)

\* Line 251: SELECTION.columns[0], and the call of set_index.
ProcessSetIndex ==
    /\ pc = "line251_columns"
    /\ IF SELECTION = None
       THEN ProcessRaises("AttributeError")
       ELSE ProcessGoes("line255", Some(SetIndex(stack[1], Head(SELECTION[1].header))), << >>)

\* Line 255: the argument COURSES.
ProcessLoadCourses ==
    /\ pc = "line255"
    /\ ProcessGoes("line255_faculty", prep_sel, <<COURSES>>)

\* Line 255: the argument FACULTY; optimize_schedule is entered.
ProcessEnter ==
    /\ pc = "line255_faculty"
    /\ pc' = "start"
    /\ selection_data' = prep_sel[1]
    /\ course_data' = stack[1][1]
    /\ faculty_data' = FACULTY
    /\ stack' = << >>
    /\ NoReturn
    /\ UNCHANGED <<voting_courses, rank_ret, slot_popularity, kemeny_score,
                   satisfaction_matrix, solves, status, x, ret, raised>>
    /\ UNCHANGED <<FACULTY, COURSES, SELECTION, prep_sel>>

\* Lines 256-257: optimize_schedule returned an error.
ProcessReturnError ==
    /\ pc = "done"
    /\ ret[1].error # None
    /\ ProcessReturns(MessageOnly(<<"Optimization error: ", ret[1].error[1]>>))

\* Lines 259-292: the results table, the log and the charts.
ProcessReturnResults ==
    /\ pc = "done"
    /\ ret[1].error = None
    /\ ProcessReturns(<< Some([component |-> "DataTable", data |-> ret[1].result[1].results]),
                         Some(LogContent(ret[1].result[1])),
                         Some(Charts(ret[1].result[1])) >>)

\* Lines 294-295: an exception of optimize_schedule is caught and shown.
ProcessReturnUnexpected ==
    /\ pc = "raised"
    /\ ProcessReturns(MessageOnly(<<"Unexpected error: ", raised[1]>>))

\* The Dash app on a threaded server: the upload callbacks run between any two
\* steps of process_optimization.
NextApp ==
    \/ FacultyDataCallback
    \/ CourseDataCallback
    \/ SelectionDataCallback
    \/ ProcessNoClick
    \/ ProcessTestCourses
    \/ ProcessTestFaculty
    \/ ProcessTestSelection
    \/ ProcessTestDtype
    \/ ProcessLoadSelection
    \/ ProcessSetIndex
    \/ ProcessLoadCourses
    \/ ProcessEnter
    \/ VotingCourses
    \/ PopularityNoVoters
    \/ RankAggr
    \/ Normalize
    \/ NormalizeRaises
    \/ BuildSatisfaction
    \/ Solve
    \/ ReturnFailed
    \/ ReturnResults
    \/ ProcessReturnError
    \/ ProcessReturnResults
    \/ ProcessReturnUnexpected

SpecApp == InitApp /\ [][NextApp]_vars

\* ------------------------------------------------------------------ claims
\* optimize_schedule returned a result record and no error.
Succeeded == pc = "done" /\ ret[1].result # None /\ ret[1].error = None

\* The 'results' list and the output matrix of the returned record.
Entries == ret[1].result[1].results
OutputRows == ret[1].result[1].output_matrix

\* The number of entries whose slot code is in codes.
EntriesIn(codes) == Cardinality({k \in DOMAIN Entries : Entries[k].Slot \in codes})

\* C1: for a non-empty course set, a successful optimize_schedule returns a total
\* assignment: every course of selection_data is in exactly one entry of
\* 'results', 'results' has exactly C entries, and every row of output_matrix
\* holds exactly one 1.
C1_TotalAssignment ==
    (Succeeded /\ num_courses >= 1) =>
        /\ Len(Entries) = num_courses
        /\ \A j \in DOMAIN course_labels :
               Cardinality({k \in DOMAIN Entries : Entries[k].Course = course_labels[j]}) = 1
        /\ \A j \in 1..OutputRows.rows :
               Cardinality({i \in 1..OutputRows.cols : OutputRows.v[j][i] = 1}) = 1
        /\ \A j \in 1..OutputRows.rows, i \in 1..OutputRows.cols : OutputRows.v[j][i] \in {0, 1}

\* A successful run with several courses, two of them sharing a slot.
C1_Witness ==
    /\ Succeeded
    /\ num_courses >= 2
    /\ \E k, m \in DOMAIN Entries : k # m /\ Entries[k].Slot = Entries[m].Slot

\* The course with this label is taught, by course_data's Faculty column, by a
\* faculty member whose Voting in faculty_data is above 0.
TaughtByVoting(label) ==
    /\ faculty_data # None
    /\ "Voting" \in faculty_data[1].columns
    /\ \E m \in DOMAIN course_data.index :
           /\ course_data.index[m] = label
           /\ \E f \in DOMAIN faculty_data[1].index :
                  /\ faculty_data[1].index[f] = course_data.Faculty[m]
                  /\ faculty_data[1].Voting[f] > 0

\* C2: when some course of the pool is taught by voting-eligible faculty, a
\* successful result assigns no such course to the exclusion slot s10.
C2_ExclusionSlot ==
    (Succeeded /\ \E j \in DOMAIN course_labels : TaughtByVoting(course_labels[j])) =>
        \A k \in DOMAIN Entries :
            TaughtByVoting(Entries[k].Course) => Entries[k].Slot # "s10"

\* A successful run in which a course of voting faculty ranked s10 first and
\* was placed elsewhere.
C2_Witness ==
    /\ Succeeded
    /\ \E k \in DOMAIN Entries :
           /\ TaughtByVoting(Entries[k].Course)
           /\ Loc(selection_data, Entries[k].Course, "values")[10] = 1
           /\ Entries[k].Slot # "s10"

\* C3: in a successful result the courses on MWF slots, and those on TT slots,
\* each number at least ceil(C/2) - 1.
C3_DayPatternFloor ==
    Succeeded =>
        /\ 2 * (EntriesIn({"s1", "s3", "s5", "s7", "s9"}) + 1) >= num_courses
        /\ 2 * (EntriesIn({"s2", "s4", "s6", "s8", "s10"}) + 1) >= num_courses

\* A successful run where the floor is at least 1 and one day-pattern sits on it
\* while a course is on a slot it did not rank.
C3_Witness ==
    /\ Succeeded
    /\ num_courses >= 3
    /\ EntriesIn({"s2", "s4", "s6", "s8", "s10"}) = ((num_courses + 1) \div 2) - 1
    /\ \E k \in DOMAIN Entries : Entries[k].Satisfaction[1] = 0

\* The slot codes of the five start-time groups.
StartTimeCodes == {{"s1", "s2"}, {"s3", "s4"}, {"s5", "s6"}, {"s7", "s8"}, {"s9", "s10"}}

\* C4: in a successful result the courses on each of the five start times number
\* between floor(C/5) and floor(C/5) + 2.
C4_StartTimeBand ==
    Succeeded =>
        \A g \in StartTimeCodes :
            /\ EntriesIn(g) >= num_courses \div 5
            /\ EntriesIn(g) <= (num_courses \div 5) + 2

\* A successful run with a floor of at least 1 that moved a course off the
\* slots it ranked.
C4_Witness ==
    /\ Succeeded
    /\ num_courses \div 5 >= 1
    /\ \E g \in StartTimeCodes : EntriesIn(g) = num_courses \div 5
    /\ \E k \in DOMAIN Entries : Entries[k].Satisfaction[1] = 0

\* The matrix rankaggr_lp was called with.
RankInput == Transpose(NonZeroRows(Values(selection_data)))

\* The linear orders of n candidates: the position (from 1) of each.
LinearOrders(n) ==
    {pos \in [0..(n - 1) -> 1..n] : \A a, b \in 0..(n - 1) : a # b => pos[a] # pos[b]}

\* The (voter, unordered pair) combinations, both ranked non-zero and ranked
\* differently by the voter, on which the order reverses the voter.
Disagreements(ranks, pos) ==
    Cardinality(
        {t \in (1..ranks.rows) \X (0..(ranks.cols - 1)) \X (0..(ranks.cols - 1)) :
            /\ t[2] < t[3]
            /\ ranks.v[t[1]][t[2] + 1] > 0
            /\ ranks.v[t[1]][t[3] + 1] > 0
            /\ ranks.v[t[1]][t[2] + 1] # ranks.v[t[1]][t[3] + 1]
            /\ (ranks.v[t[1]][t[2] + 1] < ranks.v[t[1]][t[3] + 1]) = (pos[t[3]] < pos[t[2]])})

KemenyDistance(ranks) ==
    SetMin({Disagreements(ranks, pos) : pos \in LinearOrders(ranks.cols)})

\* C5: when rankaggr_lp solves to optimality the score it returns is the Kemeny
\* distance: the least number, over the linear orders of the candidates, of
\* (voter, pair) disagreements.
C5_ScoreIsKemenyDistance ==
    (rank_ret # None /\ rank_ret[1].status = "OPTIMAL") =>
        rank_ret[1].score = Num(KemenyDistance(RankInput))

\* The positions at which get_slots_popularity has returned.
PopularityKnown == pc \in {"satisfaction", "solve", "solved", "done"}

\* The voters: the rows of the preference table with a non-zero rank.
Voters == {j \in DOMAIN selection_data.values : \E c \in SlotOrds : selection_data.values[j][c] # 0}

\* Every voter ranks slot column a with its lowest non-zero rank.
BestForAll(a) ==
    \A j \in Voters :
        /\ selection_data.values[j][a] > 0
        /\ \A c \in SlotOrds \ {a} :
               selection_data.values[j][c] > 0 =>
                   selection_data.values[j][a] < selection_data.values[j][c]

\* Every voter ranks slot column b with its highest non-zero rank.
WorstForAll(b) ==
    \A j \in Voters :
        /\ selection_data.values[j][b] > 0
        /\ \A c \in SlotOrds \ {b} :
               selection_data.values[j][c] > 0 =>
                   selection_data.values[j][b] > selection_data.values[j][c]

\* C6: with at least one voter and two slots, a slot every voter ranks best gets
\* a strictly greater popularity from get_slots_popularity than a slot every
\* voter ranks worst.
C6_BestBeatsWorst ==
    (PopularityKnown /\ Voters # {}) =>
        \A a, b \in SlotOrds :
            (a # b /\ BestForAll(a) /\ WorstForAll(b)) =>
                slot_popularity[slots[a]][1] * slot_popularity[slots[b]][2]
                    > slot_popularity[slots[b]][1] * slot_popularity[slots[a]][2]

\* C7: get_satisfaction returns exactly 0 for a preference rank of 0, whatever
\* the slot's popularity and the noise drawn, so every cell of the satisfaction
\* matrix for an unranked slot is 0.
C7_UnrankedIsZero ==
    /\ PopularityKnown =>
           \A s \in SlotOrds, noise \in 1..10 :
               get_satisfaction(slots[s], 0, slot_popularity, noise)[1] = 0
    /\ pc \in {"solve", "solved", "done"} =>
           \A s \in SlotOrds, i \in 1..num_courses :
               selection_data.values[i][s] = 0 => satisfaction_matrix[s][i][1] = 0

\* The matrix is built, and one course has both an unranked slot and a ranked
\* slot with positive satisfaction.
C7_Witness ==
    /\ pc = "solve"
    /\ \E i \in 1..num_courses, s, t \in SlotOrds :
           /\ selection_data.values[i][s] = 0
           /\ selection_data.values[i][t] > 0
           /\ satisfaction_matrix[t][i][1] > 0

\* The stored fields of a complete result record.
RecordFields ==
    {"results", "stats", "output_matrix", "satisfaction_total", "slot_popularity",
     "kemeny_score"}

\* C8: a solver status other than OPTIMAL makes optimize_schedule return
\* (None, 'Optimization failed'); whenever it returns, the pair is either a
\* complete record with no error or no record with the failure reason.
C8_RecordOrFailure ==
    pc = "done" =>
        /\ status # "OPTIMAL" =>
               ret[1] = [result |-> None, error |-> Some("Optimization failed")]
        /\ \/ /\ status = "OPTIMAL"
              /\ ret[1].result # None
              /\ DOMAIN ret[1].result[1] = RecordFields
              /\ Len(ret[1].result[1].results) = num_courses
              /\ ret[1].error = None
           \/ /\ ret[1].result = None
              /\ ret[1].error = Some("Optimization failed")

\* The solver gave no certificate for a non-empty table and the call returned.
C8_Witness ==
    /\ pc = "done"
    /\ status # "OPTIMAL"
    /\ num_courses >= 1
    /\ ret[1].result = None

\* C9: with zero courses optimize_schedule returns an empty results list and no
\* error, without raising and without calling a solver.
C9_EmptyWithoutSolver ==
    num_courses = 0 =>
        /\ solves = {}
        /\ pc # "raised"
        /\ pc = "done" => (Succeeded /\ Entries = << >>)

\* The table has a course and every rank in it is 0.
AllZeroTable ==
    /\ num_courses >= 1
    /\ \A j \in 1..num_courses, c \in SlotOrds : selection_data.values[j][c] = 0

\* C10: for a table of C >= 1 all-zero rows get_slots_popularity returns 0.5
\* for every slot and score 0, the assignment model is feasible, and a
\* successful optimize_schedule gives every entry satisfaction 0 within the
\* day-pattern floor and the start-time band.
C10_AllZeroTable ==
    AllZeroTable =>
        /\ pc # "raised"
        /\ PopularityKnown =>
               /\ \A s \in SlotOrds : 2 * slot_popularity[slots[s]][1] = slot_popularity[slots[s]][2]
               /\ kemeny_score = Some(Num(0))
        /\ pc \in {"solved", "done"} => status # "INFEASIBLE"
        /\ (pc = "done" /\ status = "OPTIMAL") =>
               /\ Succeeded
               /\ Len(Entries) = num_courses
               /\ \A k \in DOMAIN Entries : Entries[k].Satisfaction[1] = 0
               /\ 2 * (EntriesIn(mwf_set) + 1) >= num_courses
               /\ 2 * (EntriesIn(tt_set) + 1) >= num_courses
               /\ \A g \in StartTimeCodes :
                      /\ EntriesIn(g) >= num_courses \div 5
                      /\ EntriesIn(g) <= (num_courses \div 5) + 2

\* An all-zero table with several courses was scheduled.
C10_Witness ==
    /\ AllZeroTable
    /\ num_courses >= 3
    /\ Succeeded
    /\ ret[1].result[1].kemeny_score = Num(0)

\* Uniform preference input: every course gives every slot the same rank
\* value, which may be another for another course.
UniformTable ==
    /\ num_courses >= 1
    /\ \A j \in 1..num_courses :
           \E r \in 0..4 : \A c \in SlotOrds : selection_data.values[j][c] = r

C12_SubUnitNoise ==
    pc \in {"solve", "solved", "done"} =>
        \A s \in SlotOrds, i \in 1..num_courses :
            selection_data.values[i][s] > 0 =>
                LET pn == slot_popularity[slots[s]][1]
                    pd == slot_popularity[slots[s]][2]
                    base == (5 - selection_data.values[i][s]) * 10 * pd - 10 * pn
                    cell == satisfaction_matrix[s][i]
                IN  /\ cell[2] = 10 * pd
                    /\ cell[1] >= 0
                    /\ \E t \in 1..(10 * pd - 1) : cell[1] = Max2(base + t, 0)

\* The headers each upload callback names.
UploadHeaders ==
    [faculty_data |-> FacultyHeaders, course_data |-> CourseHeaders,
     selection_data |-> SelectionHeaders]

\* C13: when parse_contents cannot parse the uploaded file and returns
\* (None, error), each of the three upload callbacks returns the 'Error: ...'
\* message and does not raise.
C13_UploadErrorSurfaced ==
    (/\ callback_ret # None
     /\ callback_ret[1].callback \in DOMAIN UploadHeaders
     /\ callback_ret[1].args # None) =>
        LET r == callback_ret[1]
            parsed == parse_contents(r.args[1].contents, r.args[1].filename,
                                     UploadHeaders[r.callback])
        IN  parsed.df = None =>
                /\ r.raised = None
                /\ r.children = Some(ErrorDiv(parsed.error[1]))

\* C14: get_slots_popularity hands rankaggr_lp one voter per non-degenerate
\* course row and one candidate per slot column, so the consensus array has one
\* entry per slot, no index error ends the call, and every slot column gets a
\* popularity in [0, 1], for any number >= 1 of non-degenerate rows.
C14_RowsVoteSlotsStand ==
    /\ rank_ret # None =>
           /\ RankInput.rows = Cardinality(Voters)
           /\ RankInput.cols = Len(selection_data.columns)
           /\ Len(rank_ret[1].consensus.num) = Len(selection_data.columns)
    /\ pc # "raised"
    /\ (PopularityKnown /\ Voters # {}) =>
           \A s \in DOMAIN selection_data.columns :
               LET p == slot_popularity[selection_data.columns[s]]
               IN  p[2] > 0 /\ 0 <= p[1] /\ p[1] <= p[2]

\* By the stored tables the call was given, the course with this name is
\* listed in COURSES with a faculty member whose row of FACULTY has Voting
\* above 0.
ListedWithVotingFaculty(name) ==
    \E m \in DOMAIN course_data.index :
        /\ course_data.Course[m] = name
        /\ \E f \in DOMAIN faculty_data[1].index :
               /\ faculty_data[1].Name[f] = course_data.Faculty[m]
               /\ faculty_data[1].Voting[f] > 0

\* C15: in an optimization launched through process_optimization with the
\* tables as the upload callbacks stored them, every course whose listed
\* faculty has Voting > 0 is in voting_courses, and no such course is
\* assigned the exclusion slot s10.
C15_VotingCoursesEndToEnd ==
    /\ pc \in {"popularity", "normalize", "satisfaction", "solve", "solved", "done"} =>
           \A j \in DOMAIN course_labels :
               ListedWithVotingFaculty(course_labels[j]) =>
                   \E v \in DOMAIN voting_courses : voting_courses[v] = j - 1
    /\ (pc = "done" /\ ret[1].error = None) =>
           \A k \in DOMAIN Entries :
               ListedWithVotingFaculty(Entries[k].Course) => Entries[k].Slot # "s10"

\* The members of a set of course positions as a list in course order, the
\* order in which voting_courses is filled.
InCourseOrder(S) ==
    [k \in 1..Cardinality(S) |-> CHOOSE e \in S : Cardinality({d \in S : d < e}) = k - 1]

\* Some assignment of n courses satisfies every constraint of the model.
Satisfiable(n, nslots, voting) ==
    \E sol \in [0..(n - 1) -> OneSlotColumns(nslots)] :
        DayBalanceOk(sol, n) /\ StartTimeOk(sol, n) /\ FasOk(sol, voting)

\* C16: for a course count C >= 1 on the ten-slot catalog and every set of
\* voting-eligible courses, all of them included, the one-slot-per-course,
\* day-pattern, start-time and exclusion constraints are jointly satisfiable,
\* so the solver never reports the model infeasible and a solve that ends
\* OPTIMAL is never answered with 'Optimization failed'.
C16_JointlySatisfiable ==
    num_courses >= 1 =>
        /\ pc = "start" =>
               \A V \in SUBSET (0..(num_courses - 1)) :
                   Satisfiable(num_courses, num_slots, InCourseOrder(V))
        /\ pc = "solve" => Feasible(num_courses, num_slots, voting_courses) # {}
        /\ pc \in {"solved", "done"} => status # "INFEASIBLE"
        /\ (pc = "done" /\ status = "OPTIMAL") => Succeeded

\* A table of num_stimes courses, where every start time must take exactly one
\* course, was scheduled with voting courses kept off s10.
C16_Witness ==
    /\ Succeeded
    /\ num_courses = num_stimes
    /\ voting_courses # << >>
    /\ \E k \in DOMAIN Entries : Entries[k].Slot \in {"s9", "s10"}

\* The statistics of the returned record.
Stats == ret[1].result[1].stats

\* C17: on every successful optimize_schedule run the statistics satisfy
\* mwf_count + tt_count = C, balance_diff = |mwf_count - tt_count| <= 2 and
\* time_diff = (max - min of the five start-time counts) <= 2, so both
\* compliance lines of the log read as met.
C17_StatsWithinLimits ==
    Succeeded =>
        /\ Stats.mwf_count + Stats.tt_count = num_courses
        /\ Stats.mwf_count = EntriesIn(mwf_set)
        /\ Stats.tt_count = EntriesIn(tt_set)
        /\ Stats.balance_diff = Max2(Stats.mwf_count - Stats.tt_count,
                                     Stats.tt_count - Stats.mwf_count)
        /\ Stats.balance_diff <= 2
        /\ DOMAIN Stats.time_counts = {T900, T1030, T1200, T130, T300}
        /\ \A g \in DOMAIN time_groups :
               Stats.time_counts[slot_times[SetMin(time_groups[g]) + 1].start]
                   = EntriesIn({slots[i + 1] : i \in time_groups[g]})
        /\ Stats.time_diff = SetMax({Stats.time_counts[t] : t \in DOMAIN Stats.time_counts})
                               - SetMin({Stats.time_counts[t] : t \in DOMAIN Stats.time_counts})
        /\ Stats.time_diff <= 2
        /\ LogContent(ret[1].result[1]).day_pattern_balance = "ok"
        /\ LogContent(ret[1].result[1]).start_time_balance = "ok"

\* A successful run that sits on both limits: two courses on one day pattern
\* and on one start time.
C17_Witness ==
    /\ Succeeded
    /\ num_courses >= 2
    /\ Stats.balance_diff = 2
    /\ Stats.time_diff = 2

====
